---- MODULE Spec2Model ----
(***************************************************************************)
(* Model of the meal planner (src/app.py): one Streamlit script whose      *)
(* "Generate Meal Plan" button handler checks the API key, builds a        *)
(* prompt from the sidebar inputs, calls the completion service once,      *)
(* strips code fences from the reply, parses it with json.loads and        *)
(* renders the plan, reporting any exception with st.error.                *)
(*                                                                         *)
(* A text is a sequence of characters.  A character is written as a        *)
(* one-character string; a run of letters that no operation of the         *)
(* program looks inside (a word such as "meals") is written as one         *)
(* element.  The word "json" is always an element of its own, so that      *)
(* str.replace on the fence markers sees exactly the matches it sees in    *)
(* the real text.  The backtick cannot be written inside a TLA+ string     *)
(* and is written BT.                                                      *)
(***************************************************************************)
EXTENDS Integers, Sequences, FiniteSets, TLC

\* --------------------------------------------------------------- bounds
\* Longest list of meals in an enumerated reply.
MaxMealsInReply == 3
\* Longest adversarial payload text (fence-stripping inputs).
MaxPayloadLen == 3

\* ---------------------------------------------------------------- texts
BT == "<backtick>"
QUOTE == "\""
Whitespace == {" ", "\n"}
Digits == <<"0", "1", "2", "3", "4", "5", "6", "7", "8", "9">>
DigitChars == {Digits[i] : i \in 1..10}

\* The value of a digit character.
DigitValue(c) == (CHOOSE i \in 1..10 : Digits[i] = c) - 1

\* str(n) for an integer n >= 0: its decimal digits.
RECURSIVE str(_)
str(n) == IF n < 10 THEN <<Digits[n + 1]>> ELSE str(n \div 10) \o <<Digits[(n % 10) + 1]>>

\* s.startswith(old) at offset i (1-based).
StartsWithAt(s, i, old) ==
    /\ i + Len(old) - 1 <= Len(s)
    /\ \A k \in 1..Len(old) : s[i + k - 1] = old[k]

\* s.replace(old, new), old non-empty: every non-overlapping occurrence of
\* old, found left to right, is replaced; the result is not scanned again.
\* ReplaceFrom is the rest of the result from position i of s.
RECURSIVE ReplaceFrom(_, _, _, _)
ReplaceFrom(s, i, old, new) ==
    IF \E j \in i..Len(s) : StartsWithAt(s, j, old)
    THEN LET j == CHOOSE k \in i..Len(s) :
                      /\ StartsWithAt(s, k, old)
                      /\ \A m \in i..(k - 1) : ~StartsWithAt(s, m, old)
         IN SubSeq(s, i, j - 1) \o new \o ReplaceFrom(s, j + Len(old), old, new)
    ELSE SubSeq(s, i, Len(s))

replace(s, old, new) == ReplaceFrom(s, 1, old, new)

\* s.strip(): leading and trailing whitespace removed.
strip(s) ==
    IF \A i \in 1..Len(s) : s[i] \in Whitespace THEN <<>>
    ELSE LET first == CHOOSE i \in 1..Len(s) :
                          /\ s[i] \notin Whitespace
                          /\ \A k \in 1..(i - 1) : s[k] \in Whitespace
             last == CHOOSE i \in 1..Len(s) :
                          /\ s[i] \notin Whitespace
                          /\ \A k \in (i + 1)..Len(s) : s[k] \in Whitespace
         IN SubSeq(s, first, last)

FenceJson == <<BT, BT, BT, "json">>
Fence == <<BT, BT, BT>>

\* The mutant of clean_json: the bare fence is removed before the "json" one,
\* so the language tag of an opening fence is left in the text.
clean_json_bare_fence_first(text) ==
    strip(replace(replace(text, Fence, <<>>), FenceJson, <<>>))

\* response.text.replace("```json", "").replace("```", "").strip()
clean_json(text) ==
    strip(replace(replace(text, FenceJson, <<>>), Fence, <<>>))

\* ---------------------------------------------------------- JSON values
\* A Python value produced by json.loads.  Every value is a record of the
\* same shape, told apart by its tag t: "num" (n), "str" (s, its
\* characters), "list" (items), "dict" (keys, in insertion order, and
\* items, the value of each key), "null", "true", "false".
Num(n) == [t |-> "num", n |-> n, s |-> <<>>, items |-> <<>>, keys |-> <<>>]
Str(s) == [t |-> "str", n |-> 0, s |-> s, items |-> <<>>, keys |-> <<>>]
List(xs) == [t |-> "list", n |-> 0, s |-> <<>>, items |-> xs, keys |-> <<>>]
Dict(ks, vs) == [t |-> "dict", n |-> 0, s |-> <<>>, items |-> vs, keys |-> ks]
Literal(word) == [t |-> word, n |-> 0, s |-> <<>>, items |-> <<>>, keys |-> <<>>]
None == Literal("null")
LiteralWords == {"null", "true", "false"}

\* d[k] = v on a dict: a key already present keeps its place and takes
\* the new value (last write wins).
DictPut(d, k, v) ==
    IF \E i \in 1..Len(d.keys) : d.keys[i] = k
    THEN LET i == CHOOSE j \in 1..Len(d.keys) : d.keys[j] = k
         IN Dict(d.keys, [d.items EXCEPT ![i] = v])
    ELSE Dict(Append(d.keys, k), Append(d.items, v))

\* ------------------------------------------------------------ json.loads
\* A parse step's result: ok, the value, and the position after it.
ParseFail == [ok |-> FALSE, val |-> None, pos |-> 0]
Parsed(v, p) == [ok |-> TRUE, val |-> v, pos |-> p]

\* The first position >= i that holds no whitespace (Len(t) + 1 if none).
RECURSIVE SkipWs(_, _)
SkipWs(t, i) == IF i <= Len(t) /\ t[i] \in Whitespace THEN SkipWs(t, i + 1) ELSE i

\* A string: from the opening quote at i to the next quote; a control
\* character (a line break) inside it is an error.
ParseString(t, i) ==
    IF \E j \in (i + 1)..Len(t) : t[j] = QUOTE
    THEN LET j == CHOOSE k \in (i + 1)..Len(t) :
                      /\ t[k] = QUOTE
                      /\ \A m \in (i + 1)..(k - 1) : t[m] # QUOTE
         IN IF \E m \in (i + 1)..(j - 1) : t[m] = "\n"
            THEN ParseFail
            ELSE Parsed(Str(SubSeq(t, i + 1, j - 1)), j + 1)
    ELSE ParseFail

\* The end of the run of digits that starts at i.
RECURSIVE DigitsEnd(_, _)
DigitsEnd(t, i) == IF i <= Len(t) /\ t[i] \in DigitChars THEN DigitsEnd(t, i + 1) ELSE i

RECURSIVE DigitsValue(_, _, _)
DigitsValue(t, i, j) ==
    IF j < i THEN 0 ELSE 10 * DigitsValue(t, i, j - 1) + DigitValue(t[j])

\* A non-negative integer: "0", or a run of digits not starting with "0".
ParseNumber(t, i) ==
    IF t[i] = "0" THEN Parsed(Num(0), i + 1)
    ELSE LET j == DigitsEnd(t, i) IN Parsed(Num(DigitsValue(t, i, j - 1)), j)

RECURSIVE ParseValue(_, _), ParseMembers(_, _, _), ParseElements(_, _, _)

\* One JSON value starting at position i.
ParseValue(t, i) ==
    IF i > Len(t) THEN ParseFail
    ELSE IF t[i] = "{" THEN
        LET j == SkipWs(t, i + 1)
        IN IF j <= Len(t) /\ t[j] = "}" THEN Parsed(Dict(<<>>, <<>>), j + 1)
           ELSE ParseMembers(t, j, Dict(<<>>, <<>>))
    ELSE IF t[i] = "[" THEN
        LET j == SkipWs(t, i + 1)
        IN IF j <= Len(t) /\ t[j] = "]" THEN Parsed(List(<<>>), j + 1)
           ELSE ParseElements(t, j, <<>>)
    ELSE IF t[i] = QUOTE THEN ParseString(t, i)
    ELSE IF t[i] \in DigitChars THEN ParseNumber(t, i)
    ELSE IF t[i] \in LiteralWords THEN Parsed(Literal(t[i]), i + 1)
    ELSE ParseFail

\* The members of an object from position i (a key is expected there),
\* added to the dict d read so far.
ParseMembers(t, i, d) ==
    IF i > Len(t) \/ t[i] # QUOTE THEN ParseFail
    ELSE LET key == ParseString(t, i)
         IN IF ~key.ok THEN ParseFail
            ELSE LET c == SkipWs(t, key.pos)
                 IN IF c > Len(t) \/ t[c] # ":" THEN ParseFail
                    ELSE LET v == ParseValue(t, SkipWs(t, c + 1))
                         IN IF ~v.ok THEN ParseFail
                            ELSE LET e == SkipWs(t, v.pos)
                                     d2 == DictPut(d, key.val.s, v.val)
                                 IN IF e > Len(t) THEN ParseFail
                                    ELSE IF t[e] = "}" THEN Parsed(d2, e + 1)
                                    ELSE IF t[e] = "," THEN ParseMembers(t, SkipWs(t, e + 1), d2)
                                    ELSE ParseFail

\* The elements of an array from position i, added to the list xs.
ParseElements(t, i, xs) ==
    LET v == ParseValue(t, i)
    IN IF ~v.ok THEN ParseFail
       ELSE LET e == SkipWs(t, v.pos)
                xs2 == Append(xs, v.val)
            IN IF e > Len(t) THEN ParseFail
               ELSE IF t[e] = "]" THEN Parsed(List(xs2), e + 1)
               ELSE IF t[e] = "," THEN ParseElements(t, SkipWs(t, e + 1), xs2)
               ELSE ParseFail

\* json.loads(text): one value, whitespace around it, nothing after it.
\* ok = FALSE is json.JSONDecodeError.
json_loads(text) ==
    LET v == ParseValue(text, SkipWs(text, 1))
    IN IF v.ok /\ SkipWs(text, v.pos) = Len(text) + 1 THEN v ELSE ParseFail

\* ------------------------------------------------ the provider's replies
\* The text of a value, as json.dumps writes it (", " and ": ").
RECURSIVE Dump(_), DumpItems(_, _), DumpMembers(_, _)
Dump(v) ==
    IF v.t = "num" THEN str(v.n)
    ELSE IF v.t = "str" THEN <<QUOTE>> \o v.s \o <<QUOTE>>
    ELSE IF v.t = "list" THEN <<"[">> \o DumpItems(v.items, 1) \o <<"]">>
    ELSE IF v.t = "dict" THEN <<"{">> \o DumpMembers(v, 1) \o <<"}">>
    ELSE <<v.t>>

DumpItems(xs, i) ==
    IF i > Len(xs) THEN <<>>
    ELSE (IF i > 1 THEN <<",", " ">> ELSE <<>>) \o Dump(xs[i]) \o DumpItems(xs, i + 1)

DumpMembers(d, i) ==
    IF i > Len(d.keys) THEN <<>>
    ELSE (IF i > 1 THEN <<",", " ">> ELSE <<>>)
         \o <<QUOTE>> \o d.keys[i] \o <<QUOTE, ":", " ">> \o Dump(d.items[i])
         \o DumpMembers(d, i + 1)

\* ------------------------------------------------ Python on JSON values
\* The result of an expression: the exception it raises ("" if none)
\* and its value.
Raise(e) == [exc |-> e, val |-> None]
Return(v) == [exc |-> "", val |-> v]

\* A dict key written as one word.
Key(word) == <<word>>

HasKey(d, k) == d.t = "dict" /\ \E i \in 1..Len(d.keys) : d.keys[i] = k
ValueOf(d, k) == d.items[CHOOSE i \in 1..Len(d.keys) : d.keys[i] = k]

\* obj[key] for a string key: a dict gives the value or KeyError; a list,
\* a str and every other value raise TypeError.
getitem(obj, key) ==
    IF obj.t # "dict" THEN Raise("TypeError")
    ELSE IF HasKey(obj, key) THEN Return(ValueOf(obj, key))
    ELSE Raise("KeyError")

\* obj.get(key, default): only a dict has get.
get(obj, key, default) ==
    IF obj.t # "dict" THEN Raise("AttributeError")
    ELSE IF HasKey(obj, key) THEN Return(ValueOf(obj, key))
    ELSE Return(default)

\* What `for x in obj` goes through, as a list value: the items of a
\* list, the keys of a dict, the characters of a str; TypeError otherwise.
iter(obj) ==
    IF obj.t = "list" THEN Return(obj)
    ELSE IF obj.t = "dict" THEN Return(List([i \in 1..Len(obj.keys) |-> Str(obj.keys[i])]))
    ELSE IF obj.t = "str" THEN Return(List([i \in 1..Len(obj.s) |-> Str(<<obj.s[i]>>)]))
    ELSE Raise("TypeError")

\* int + v: a number adds, a bool adds as 1 or 0, anything else raises.
add(acc, v) ==
    IF v.t = "num" THEN Return(Num(acc + v.n))
    ELSE IF v.t = "true" THEN Return(Num(acc + 1))
    ELSE IF v.t = "false" THEN Return(Num(acc))
    ELSE Raise("TypeError")

\* ------------------------------------------------------------- rendering
\* One element on the page: the Streamlit call and its arguments.
Elem(w, args) == [w |-> w, args |-> args]
Text(word) == Str(<<word>>)

ErrMissingKey == Elem("error", <<Text("Please enter a valid Gemini API Key in the sidebar.")>>)
ErrApiKey == Elem("error", <<Str(<<"API Key Error: ", "ConfigureError">>)>>)
ErrParse == Elem("error", <<Text("Error parsing AI response. Please try again.")>>)
ErrOccurred(e) == Elem("error", <<Str(<<"An error occurred: ", e>>)>>)

\* The state of a run of the display code: the exception that ended it
\* ("" while it runs), the page so far, and the widget keys in use.
Run(exc, ui, keys) == [exc |-> exc, ui |-> ui, keys |-> keys]

\* sum(m.get('estimated_cost', 0) for m in ms), from item i with acc so far.
RECURSIVE sum_costs(_, _, _)
sum_costs(ms, i, acc) ==
    IF i > Len(ms) THEN Return(Num(acc))
    ELSE LET c == get(ms[i], Key("estimated_cost"), Num(0))
         IN IF c.exc # "" THEN c
            ELSE LET a == add(acc, c.val)
                 IN IF a.exc # "" THEN a ELSE sum_costs(ms, i + 1, a.val.n)

\* total_est_cost = sum(m.get('estimated_cost', 0) for m in data['meals'])
total_est_cost(data) ==
    LET meals == getitem(data, Key("meals"))
    IN IF meals.exc # "" THEN meals
       ELSE LET it == iter(meals.val)
            IN IF it.exc # "" THEN it ELSE sum_costs(it.val.items, 1, 0)

\* The mutant of the budget check: >= instead of >.
budget_check_ge(total, budget_target) ==
    IF total >= budget_target
    THEN Elem("warning", <<Num(total), Num(budget_target)>>)
    ELSE Elem("success", <<Num(total)>>)

\* The budget check: a warning when the total is over the target.
budget_check(total, budget_target) ==
    IF total > budget_target
    THEN Elem("warning", <<Num(total), Num(budget_target)>>)
    ELSE Elem("success", <<Num(total)>>)

\* for x in seq: st.markdown(f"- {x}"), or with its number under enumerate.
RECURSIVE markdown_each(_, _, _, _)
markdown_each(w, xs, i, ui) ==
    IF i > Len(xs) THEN ui
    ELSE markdown_each(w, xs, i + 1,
                       Append(ui, Elem(w, IF w = "step" THEN <<Num(i), xs[i]>> ELSE <<xs[i]>>)))

\* The body of one meal's expander, after its header was built.  The
\* argument of st.image on line 106 is the text of a markdown link, not a
\* URL; whether Streamlit can load a picture from it is the environment's
\* choice (image_ok), and when it cannot, st.image raises.
meal_body(meal, ui, image_ok) ==
    IF ~image_ok THEN Run("MediaFileStorageError", ui, <<>>)
    ELSE LET ui1 == ui \o <<Elem("image", <<>>), Elem("markdown", <<Text("**Ingredients:**")>>)>>
             ing == getitem(meal, Key("ingredients"))
             ings == IF ing.exc # "" THEN ing ELSE iter(ing.val)
         IN IF ings.exc # "" THEN Run(ings.exc, ui1, <<>>)
            ELSE LET ui2 == Append(markdown_each("ingredient", ings.val.items, 1, ui1),
                                   Elem("markdown", <<Text("**Instructions:**")>>))
                     ins == getitem(meal, Key("instructions"))
                     inss == IF ins.exc # "" THEN ins ELSE iter(ins.val)
                 IN IF inss.exc # "" THEN Run(inss.exc, ui2, <<>>)
                    ELSE Run("", markdown_each("step", inss.val.items, 1, ui2), <<>>)

\* for meal in data['meals']: the expander of each meal, from meal i.
RECURSIVE render_meals(_, _, _, _)
render_meals(ms, i, ui, image_ok) ==
    IF i > Len(ms) THEN Run("", ui, <<>>)
    ELSE LET title == getitem(ms[i], Key("title"))
             time == getitem(ms[i], Key("time_minutes"))
             cost == getitem(ms[i], Key("estimated_cost"))
         IN IF title.exc # "" THEN Run(title.exc, ui, <<>>)
            ELSE IF time.exc # "" THEN Run(time.exc, ui, <<>>)
            ELSE IF cost.exc # "" THEN Run(cost.exc, ui, <<>>)
            ELSE LET r == meal_body(ms[i],
                                    Append(ui, Elem("expander", <<title.val, time.val, cost.val>>)),
                                    image_ok)
                 IN IF r.exc # "" THEN r ELSE render_meals(ms, i + 1, r.ui, image_ok)

\* with tab1: the total, the budget check and the meals.
tab1(data, budget_target, ui, image_ok) ==
    LET total == total_est_cost(data)
    IN IF total.exc # "" THEN Run(total.exc, ui, <<>>)
       ELSE render_meals(iter(getitem(data, Key("meals")).val).val.items, 1,
                         Append(ui, budget_check(total.val.n, budget_target)), image_ok)

\* for item in items: st.checkbox(item, key=item).  A key already used by
\* a widget of this run raises DuplicateWidgetID.
RECURSIVE checkboxes(_, _, _)
checkboxes(xs, i, run) ==
    IF i > Len(xs) THEN run
    ELSE IF \E k \in 1..Len(run.keys) : run.keys[k] = xs[i]
    THEN Run("DuplicateWidgetID", run.ui, run.keys)
    ELSE checkboxes(xs, i + 1,
                    Run("", Append(run.ui, Elem("checkbox", <<xs[i]>>)), Append(run.keys, xs[i])))

\* for category, items in shopping_list.items(), from category i.
RECURSIVE categories(_, _, _)
categories(sl, i, run) ==
    IF i > Len(sl.keys) THEN run
    ELSE LET ui1 == Append(run.ui, Elem("subheader", <<Str(sl.keys[i])>>))
             items == iter(sl.items[i])
         IN IF items.exc # "" THEN Run(items.exc, ui1, run.keys)
            ELSE LET r == checkboxes(items.val.items, 1, Run("", ui1, run.keys))
                 IN IF r.exc # "" THEN r ELSE categories(sl, i + 1, r)

\* with tab2: the header and the shopping list.
tab2(data, ui) ==
    LET ui1 == Append(ui, Elem("header", <<Text("Shopping List")>>))
        sl == getitem(data, Key("shopping_list"))
    IN IF sl.exc # "" THEN Run(sl.exc, ui1, <<>>)
       ELSE IF sl.val.t # "dict" THEN Run("AttributeError", ui1, <<>>)
       ELSE categories(sl.val, 1, Run("", ui1, <<>>))

\* 3. DISPLAY RESULTS: the tabs, tab1, then tab2.
display(data, budget_target, ui, image_ok) ==
    LET r1 == tab1(data, budget_target, Append(ui, Elem("tabs", <<>>)), image_ok)
    IN IF r1.exc # "" THEN r1 ELSE tab2(data, r1.ui)

\* The mutant of the try block: every exception, a JSONDecodeError too, is
\* reported by the generic handler.
interpret_generic_handler(parsed, budget_target, ui, image_ok) ==
    IF ~parsed.ok THEN Append(ui, ErrOccurred("JSONDecodeError"))
    ELSE LET r == display(parsed.val, budget_target, ui, image_ok)
         IN IF r.exc # "" THEN Append(r.ui, ErrOccurred(r.exc)) ELSE r.ui

\* The try block after the text was cleaned and parsed (parsed is the
\* result of json.loads): display; a JSONDecodeError and any other
\* exception are reported with st.error.
\* The page is what was rendered before the exception, then the error.
interpret(parsed, budget_target, ui, image_ok) ==
    IF ~parsed.ok THEN Append(ui, ErrParse)
    ELSE LET r == display(parsed.val, budget_target, ui, image_ok)
         IN IF r.exc # "" THEN Append(r.ui, ErrOccurred(r.exc)) ELSE r.ui

\* ------------------------------------------------------------ the sidebar
MinMeals == 1
MaxMeals == 7
MinServings == 1
MinBudget == 10

ComplexityOptions == {"Easy", "Medium", "Gourmet/Difficult"}
CookwareOptions == {"One Pot", "Sheet Pan", "Slow Cooker", "Air Fryer", "Stove Top", "Oven"}
IngredientLimitOptions == {"Under 5", "Unlimited"}
DietOptions == {"Balanced", "High Protein", "Vegan", "Vegetarian", "Keto", "Paleo"}
AvoidOptions == {"Mushrooms", "Nuts", "Dairy", "Gluten", "Shellfish", "Beef", "Pork"}
CuisineOptions == {"No Preference", "Italian", "Mexican", "Asian", "Mediterranean", "American"}

\* The widgets' values when the page is first loaded.
DefaultPrefs ==
    [total_meals |-> 3, servings |-> 2, complexity |-> "Easy",
     cook_ware |-> <<"Stove Top", "Oven">>, max_ingredients |-> "Unlimited",
     diet_type |-> "Balanced", avoid_list |-> <<>>, cuisine |-> "No Preference",
     budget_target |-> 50]

\* What a multiselect can return: chosen options, in the order chosen.
Selections(options) ==
    {sel \in UNION {[1..k -> options] : k \in 0..Cardinality(options)} :
        \A i, j \in 1..Len(sel) : i # j => sel[i] # sel[j]}

\* ", ".join(xs)
RECURSIVE join(_, _)
join(sep, xs) ==
    IF xs = <<>> THEN <<>>
    ELSE IF Len(xs) = 1 THEN <<xs[1]>>
    ELSE <<xs[1], sep>> \o join(sep, Tail(xs))

\* The mutant of the prompt: the budget is written without the dollar sign
\* and the cuisine line is missing.
prompt_without_dollar(p) ==
    <<"Act as a professional chef and nutritionist. Create a meal plan for ">>
    \o str(p.total_meals) \o <<" dinners.", "\n", "Constraints:", "\n", "- Servings: ">>
    \o str(p.servings) \o <<" people per meal.", "\n", "- Complexity: ", p.complexity, "\n",
         "- Cookware allowed: ">>
    \o join(", ", p.cook_ware) \o <<"\n", "- Max Ingredients: ", p.max_ingredients, "\n",
         "- Diet: ", p.diet_type, "\n", "- Avoid: ">>
    \o join(", ", p.avoid_list) \o <<"\n", "- Budget Target: Keep total ingredients under ">>
    \o str(p.budget_target) \o <<" (estimate generic US grocery prices).">>

\* The f-string of the prompt: the literal text in pieces, each value
\* formatted in its place.  (The indentation of the source lines is left
\* out of the pieces.)
prompt(p) ==
    <<"\n", "Act as a professional chef and nutritionist. Create a meal plan for ">>
    \o str(p.total_meals)
    \o <<" dinners.", "\n", "\n", "Constraints:", "\n", "- Servings: ">>
    \o str(p.servings)
    \o <<" people per meal.", "\n", "- Complexity: ", p.complexity, "\n",
         "- Cookware allowed: ">>
    \o join(", ", p.cook_ware)
    \o <<"\n", "- Max Ingredients: ", p.max_ingredients, "\n",
         "- Diet: ", p.diet_type, "\n", "- Avoid: ">>
    \o join(", ", p.avoid_list)
    \o <<"\n", "- Cuisine: ", p.cuisine, "\n",
         "- Budget Target: Keep total ingredients under ", "$">>
    \o str(p.budget_target)
    \o <<" (estimate generic US grocery prices).", "\n", "\n", "Output Format:", "\n",
         "Return ONLY valid JSON. Do not include markdown formatting like ",
         BT, BT, BT, "json", ".", "\n", "Structure:", "\n",
         "{", "\n", "\"meals\": [", "\n", "{", "\n",
         "\"title\": \"Recipe Name\",", "\n",
         "\"time_minutes\": 30,", "\n",
         "\"estimated_cost\": 15.00,", "\n",
         "\"ingredients\": [\"item 1\", \"item 2\"],", "\n",
         "\"instructions\": [\"step 1\", \"step 2\"]", "\n",
         "}", "\n", "],", "\n",
         "\"shopping_list\": {", "\n",
         "\"Produce\": [\"item\", \"item\"],", "\n",
         "\"Pantry\": [\"item\"],", "\n",
         "\"Protein\": [\"item\"]", "\n",
         "}", "\n", "}", "\n">>

\* ------------------------------------------------------------- the state
VARIABLES
    api_key,       \* the sidebar's API key field
    prefs,         \* the sidebar's other inputs
    image_loads,   \* whether st.image can load what line 106 passes it
    pc,            \* "idle": no handler ran in this script run;
                   \* "calling": the handler waits in generate_content;
                   \* "done": the handler has ended
    sent,          \* the prompt passed to generate_content by this request
    calls,         \* calls to generate_content made by this request
    response,      \* what the call gave: nothing yet, a text, or an exception
    data,          \* what json.loads gave: nothing yet, an error, or a value
    ui             \* the elements the handler put on the page, in order

vars == <<api_key, prefs, image_loads, pc, sent, calls, response, data, ui>>

NoResponse == [kind |-> "none", text |-> <<>>]
NoData == [state |-> "none", val |-> None]

ApiKeys == {"", "AIza-key"}

Init ==
    /\ api_key = ""
    /\ prefs = DefaultPrefs
    /\ image_loads \in BOOLEAN
    /\ pc = "idle"
    /\ sent = <<>>
    /\ calls = 0
    /\ response = NoResponse
    /\ data = NoData
    /\ ui = <<>>

\* The user changes one sidebar input (choices gives, per widget, the
\* values tried): Streamlit runs the script again with the button not
\* pressed, so nothing of the handler is on the page.  The call of
\* generate_content is synchronous: no input is taken while it is pending.
EditSidebar(choices) ==
    /\ pc # "calling"
    /\ \/ /\ \E k \in ApiKeys \ {api_key} : api_key' = k
          /\ prefs' = prefs
       \/ /\ \E f \in DOMAIN choices : \E v \in choices[f] \ {prefs[f]} :
                prefs' = [prefs EXCEPT ![f] = v]
          /\ api_key' = api_key
    /\ pc' = "idle"
    /\ sent' = <<>>
    /\ calls' = 0
    /\ response' = NoResponse
    /\ data' = NoData
    /\ ui' = <<>>
    /\ UNCHANGED image_loads

\* init_gemini(api_key): genai.configure, whose exception is reported; the
\* result is not looked at by the caller.
init_gemini(configured) == IF configured THEN <<>> ELSE <<ErrApiKey>>

\* The mutant of the button handler: the key is not checked.
GenerateClickNoKeyCheck ==
    /\ pc # "calling"
    /\ \E configured \in BOOLEAN : ui' = init_gemini(configured)
    /\ sent' = prompt(prefs)
    /\ calls' = 1
    /\ pc' = "calling"
    /\ response' = NoResponse
    /\ data' = NoData
    /\ UNCHANGED <<api_key, prefs, image_loads>>

\* The button is pressed: the handler up to the call of generate_content.
GenerateClick ==
    /\ pc # "calling"
    /\ IF api_key = ""
       THEN /\ ui' = <<ErrMissingKey>>
            /\ sent' = <<>>
            /\ calls' = 0
            /\ pc' = "done"
       ELSE /\ \E configured \in BOOLEAN : ui' = init_gemini(configured)
            /\ sent' = prompt(prefs)
            /\ calls' = 1
            /\ pc' = "calling"
    /\ response' = NoResponse
    /\ data' = NoData
    /\ UNCHANGED <<api_key, prefs, image_loads>>

\* The mutant of the error path: a call that raised is made again.
ProviderRaisesRetried ==
    /\ pc = "calling"
    /\ calls < 3
    /\ calls' = calls + 1
    /\ UNCHANGED <<api_key, prefs, image_loads, pc, sent, response, data, ui>>

\* generate_content (or response.text) raises: except Exception reports it.
ProviderRaises ==
    /\ pc = "calling"
    /\ response' = [kind |-> "raise", text |-> <<>>]
    /\ ui' = Append(ui, ErrOccurred("ProviderError"))
    /\ pc' = "done"
    /\ UNCHANGED <<api_key, prefs, image_loads, sent, calls, data>>

\* generate_content returns a text: the rest of the try block.
ProviderReturns(texts) ==
    /\ pc = "calling"
    /\ \E text \in texts :
        LET parsed == json_loads(clean_json(text))
        IN /\ response' = [kind |-> "text", text |-> text]
           /\ data' = [state |-> IF parsed.ok THEN "ok" ELSE "error", val |-> parsed.val]
           /\ ui' = interpret(parsed, prefs.budget_target, ui, image_loads)
    /\ pc' = "done"
    /\ UNCHANGED <<api_key, prefs, image_loads, sent, calls>>

\* ------------------------------------------------- the inputs enumerated
\* Budgets typed into the number input (an integer >= MinBudget).
Budgets == {MinBudget, 40, 50}
MainChoices == [budget_target |-> Budgets]

\* Sidebar inputs for the prompt: every widget takes several values.
PromptChoices ==
    [total_meals |-> {MinMeals, 3, MaxMeals},
     servings |-> {MinServings, 2, 12},
     complexity |-> ComplexityOptions,
     cook_ware |-> Selections({"Stove Top", "Oven"}),
     max_ingredients |-> IngredientLimitOptions,
     diet_type |-> {"Balanced", "Vegan"},
     avoid_list |-> Selections({"Nuts", "Pork"}),
     cuisine |-> {"No Preference", "Italian"},
     budget_target |-> {MinBudget, 50}]

\* A meal as the prompt asks for it, with estimated_cost c.
Meal(c) ==
    Dict(<<Key("title"), Key("time_minutes"), Key("estimated_cost"),
           Key("ingredients"), Key("instructions")>>,
         <<Str(<<"Soup">>), Num(30), Num(c),
           List(<<Str(<<"salt">>), Str(<<"rice">>)>>), List(<<Str(<<"boil">>)>>)>>)

\* d without key k.
Without(d, k) ==
    LET keep == {i \in 1..Len(d.keys) : d.keys[i] # k}
        at(n) == CHOOSE i \in keep : Cardinality({j \in keep : j < i}) = n - 1
    IN Dict([n \in 1..Cardinality(keep) |-> d.keys[at(n)]],
            [n \in 1..Cardinality(keep) |-> d.items[at(n)]])

GoodMeals == {Meal(c) : c \in {10, 15, 20}}

\* Meals that do not follow the schema: a field missing, or a sequence
\* field that is a string or a number.
BadMeals ==
    {Without(Meal(10), Key("estimated_cost")),
     Without(Meal(10), Key("ingredients")),
     DictPut(Meal(10), Key("ingredients"), Str(<<"s", "a", "l", "t">>)),
     DictPut(Meal(10), Key("ingredients"), Num(5)),
     Without(Meal(10), Key("instructions")),
     DictPut(Meal(10), Key("instructions"), Str(<<"b", "o", "i", "l">>)),
     DictPut(Meal(10), Key("instructions"), Num(5))}

\* Lists of at most MaxMealsInReply meals: every list of schema meals, and
\* the lists of Meal(10) with one off-schema meal in some place.
MealLists ==
    UNION {[1..n -> GoodMeals] : n \in 0..MaxMealsInReply}
    \cup {[i \in 1..n |-> IF i = k THEN bad ELSE Meal(10)] :
            n \in 1..MaxMealsInReply, k \in 1..MaxMealsInReply, bad \in BadMeals}

Category(items) == List([i \in 1..Len(items) |-> Str(<<items[i]>>)])

\* Shopping lists: no category, one, two, and two that share an item.
ShoppingLists ==
    {Dict(<<>>, <<>>),
     Dict(<<Key("Produce")>>, <<Category(<<"salt">>)>>),
     Dict(<<Key("Produce"), Key("Pantry")>>, <<Category(<<"salt">>), Category(<<"rice", "oil">>)>>),
     Dict(<<Key("Produce"), Key("Pantry")>>, <<Category(<<"salt">>), Category(<<"rice", "salt">>)>>)}

Plan(meals, shopping_list) ==
    Dict(<<Key("meals"), Key("shopping_list")>>, <<List(meals), shopping_list>>)

\* The values a reply may hold: plans, plans without a top-level key,
\* and values that are no plan at all.
ReplyValues ==
    {Plan(ms, Dict(<<Key("Produce")>>, <<Category(<<"salt">>)>>)) : ms \in MealLists}
    \cup {Plan(ms, sl) : ms \in {<<>>, <<Meal(10)>>}, sl \in ShoppingLists}
    \cup {Without(Plan(ms, sl), k) :
            ms \in {<<>>, <<Meal(10)>>, <<Meal(20), Meal(20), Meal(20)>>},
            sl \in {Dict(<<>>, <<>>), Dict(<<Key("Produce")>>, <<Category(<<"salt">>)>>)},
            k \in {Key("meals"), Key("shopping_list")}}
    \cup {Dict(<<>>, <<>>), List(<<>>), Num(5), Str(<<"meals">>), None,
          Dict(<<Key("meals"), Key("shopping_list")>>, <<Num(5), Dict(<<>>, <<>>)>>),
          Dict(<<Key("meals"), Key("shopping_list")>>, <<List(<<>>), List(<<>>)>>),
          Dict(<<Key("meals"), Key("shopping_list")>>, <<List(<<Num(5)>>), Dict(<<>>, <<>>)>>)}

\* A payload inside a json fence, as a provider that ignores the prompt's
\* instruction writes it.
Wrap(text) == FenceJson \o text \o Fence
WrapLines(text) == FenceJson \o <<"\n">> \o text \o <<"\n">> \o Fence

\* Short texts over the characters the cleaning looks at.
FenceAlphabet == {BT, "json", " ", "{", "}"}
Payloads == UNION {[1..n -> FenceAlphabet] : n \in 0..MaxPayloadLen}

\* The texts generate_content returns.
ReplyTexts ==
    {Dump(v) : v \in ReplyValues}
    \cup {WrapLines(Dump(Plan(ms, sl))) : ms \in {<<>>, <<Meal(10), Meal(15), Meal(20)>>},
                                         sl \in ShoppingLists}
    \cup {<<"not", " ", "json">>,
          <<"Here", " ", "is", " ", "your", " ", "plan", ":", " ">> \o Dump(Plan(<<>>, Dict(<<>>, <<>>))),
          SubSeq(Dump(Plan(<<Meal(10)>>, Dict(<<>>, <<>>))), 1, 40)}
    \cup Payloads

\* ------------------------------------------------------ the specifications
Next ==
    \/ EditSidebar(MainChoices)
    \/ GenerateClick
    \/ ProviderRaises
    \/ ProviderReturns(ReplyTexts)

Spec == Init /\ [][Next]_vars

\* The prompt builder over many sidebar inputs; the provider's answer
\* plays no part.
PromptNext ==
    \/ EditSidebar(PromptChoices)
    \/ GenerateClick
    \/ ProviderRaises

SpecPrompt == Init /\ [][PromptNext]_vars

\* ------------------------------------------------- reading the page
\* The places of the elements of kind w on the page.
Places(w) == {i \in 1..Len(ui) : ui[i].w = w}
\* An error reported by the handler's own checks and except clauses (the
\* report of init_gemini is about the key, not about the reply).
ErrorReported == \E i \in Places("error") : ui[i] # ErrApiKey
BudgetVerdicts == Places("success") \cup Places("warning")
\* Elements that show the plan: the verdict, a meal, a shopping-list entry.
PlanElements ==
    BudgetVerdicts \cup Places("expander") \cup Places("ingredient") \cup Places("step")
    \cup Places("subheader") \cup Places("checkbox")

\* The handler has ended after json.loads returned a value.
ParsedReply == pc = "done" /\ data.state = "ok"

IsStrList(v) == v.t = "list" /\ \A i \in 1..Len(v.items) : v.items[i].t = "str"
HasList(v, k) == HasKey(v, k) /\ ValueOf(v, k).t = "list"
MealsOf(v) == ValueOf(v, Key("meals")).items
ShoppingOf(v) == ValueOf(v, Key("shopping_list"))

\* A reply with both top-level fields: a list of meals and a mapping from
\* category to a list of item names, no item named twice.
PlanShaped(v) ==
    /\ v.t = "dict"
    /\ HasList(v, Key("meals"))
    /\ HasKey(v, Key("shopping_list"))
    /\ ShoppingOf(v).t = "dict"
    /\ \A i \in 1..Len(ShoppingOf(v).items) : IsStrList(ShoppingOf(v).items[i])

AllItems(sl) == UNION {{<<i, j>> : j \in 1..Len(sl.items[i].items)} : i \in 1..Len(sl.items)}
DistinctItems(sl) ==
    \A a, b \in AllItems(sl) :
        a # b => sl.items[a[1]].items[a[2]] # sl.items[b[1]].items[b[2]]

\* A meal with every field of the schema, except perhaps estimated_cost.
MealButCost(m) ==
    /\ m.t = "dict"
    /\ HasKey(m, Key("title")) /\ HasKey(m, Key("time_minutes"))
    /\ HasKey(m, Key("ingredients")) /\ IsStrList(ValueOf(m, Key("ingredients")))
    /\ HasKey(m, Key("instructions")) /\ IsStrList(ValueOf(m, Key("instructions")))
    /\ HasKey(m, Key("estimated_cost")) => ValueOf(m, Key("estimated_cost")).t = "num"

CostOf(m) == IF HasKey(m, Key("estimated_cost")) THEN ValueOf(m, Key("estimated_cost")).n ELSE 0

\* The sum of the costs of ms[1..n].
RECURSIVE CostSum(_, _)
CostSum(ms, n) == IF n = 0 THEN 0 ELSE CostSum(ms, n - 1) + CostOf(ms[n])

\* ------------------------------------------------------------ the claims

\* C1: a Generate action taken while the API key is empty reports the
\* missing credential and nothing else; no prompt is sent, no call is made
\* and no response is parsed or rendered.  A request that waits in the call
\* was started with a non-empty key.
C1_MissingCredentialNoCall ==
    /\ (pc = "done" /\ api_key = "") =>
           /\ ui = <<ErrMissingKey>>
           /\ calls = 0
           /\ sent = <<>>
           /\ response = NoResponse
           /\ data = NoData
    /\ pc = "calling" => api_key # ""

C1_Witness == pc = "done" /\ api_key = "" /\ ui = <<ErrMissingKey>> /\ calls = 0

\* With a non-empty key the request has made one call, while it waits and
\* after it ended with a text or an exception; when a request has ended,
\* Generate can be taken again.
OneCallPerRequest ==
    /\ (pc \in {"calling", "done"} /\ api_key # "") => calls = 1
    /\ (pc = "done" /\ api_key # "") => response.kind \in {"text", "raise"}
    /\ pc = "done" => ENABLED GenerateClick

\* C2: a Generate action taken with a non-empty key makes exactly one call,
\* whatever the outcome; the count of calls changes only in a step the user
\* takes from a state where no call is pending (a new Generate sets it to 1,
\* a sidebar edit clears it), and after any outcome Generate can be taken
\* again.
C2_ExactlyOneCall ==
    /\ []OneCallPerRequest
    /\ [][calls' # calls => (pc # "calling" /\ (calls' = 0 \/ (calls' = 1 /\ pc' = "calling")))]_vars

C2_Witness == pc = "done" /\ api_key # "" /\ calls = 1 /\ ErrorReported /\ response.kind = "raise"

C4_MissingTopLevelKeyFails ==
    (ParsedReply /\ data.val.t = "dict"
        /\ (~HasKey(data.val, Key("meals")) \/ ~HasKey(data.val, Key("shopping_list")))) =>
        /\ ErrorReported
        /\ BudgetVerdicts = {}

\* C5 (the claim as stated, for runs in which st.image loads): a plan whose
\* meals have every field but, for some meal, estimated_cost, counts that
\* meal as 0, reports no error, and shows every meal and every category.
C5_MissingCostDegrades ==
    (ParsedReply /\ image_loads /\ PlanShaped(data.val)
        /\ DistinctItems(ShoppingOf(data.val))
        /\ (\A i \in 1..Len(MealsOf(data.val)) : MealButCost(MealsOf(data.val)[i]))
        /\ (\E i \in 1..Len(MealsOf(data.val)) :
                ~HasKey(MealsOf(data.val)[i], Key("estimated_cost")))) =>
        /\ ~ErrorReported
        /\ \E i \in BudgetVerdicts :
               ui[i] = budget_check(CostSum(MealsOf(data.val), Len(MealsOf(data.val))),
                                    prefs.budget_target)
        /\ Cardinality(Places("expander")) = Len(MealsOf(data.val))
        /\ Cardinality(Places("subheader")) = Len(ShoppingOf(data.val).keys)

\* C6 (the claim as stated): a plan with a meal whose ingredients or
\* instructions field is absent or is not a list reports a failure.
C6_NonSequenceFieldFails ==
    (ParsedReply /\ PlanShaped(data.val)
        /\ \E i \in 1..Len(MealsOf(data.val)) :
               LET m == MealsOf(data.val)[i]
               IN /\ m.t = "dict"
                  /\ \/ ~HasList(m, Key("ingredients"))
                     \/ ~HasList(m, Key("instructions"))) =>
        ErrorReported

\* C7: for a parsed plan whose meals all carry a numeric estimated_cost,
\* the page shows exactly one budget verdict, computed from the sum of the
\* costs: over budget when the sum is greater than budget_target, within
\* budget otherwise (also when they are equal).
C7_BudgetClassification ==
    (ParsedReply /\ data.val.t = "dict" /\ HasList(data.val, Key("meals"))
        /\ \A i \in 1..Len(MealsOf(data.val)) :
               LET m == MealsOf(data.val)[i]
               IN m.t = "dict" /\ HasKey(m, Key("estimated_cost"))
                  /\ ValueOf(m, Key("estimated_cost")).t = "num") =>
        LET total == CostSum(MealsOf(data.val), Len(MealsOf(data.val)))
        IN /\ Cardinality(BudgetVerdicts) = 1
           /\ \A i \in BudgetVerdicts :
                  ui[i] = IF total > prefs.budget_target
                          THEN Elem("warning", <<Num(total), Num(prefs.budget_target)>>)
                          ELSE Elem("success", <<Num(total)>>)

C7_Witness ==
    /\ ParsedReply /\ data.val.t = "dict" /\ HasList(data.val, Key("meals"))
    /\ MealsOf(data.val) = <<Meal(10), Meal(15), Meal(20)>>
    /\ prefs.budget_target = 50
    /\ \E i \in 1..Len(ui) : ui[i] = Elem("success", <<Num(45)>>)

\* C8 (the claim as stated): a reply with an empty list of meals and a
\* shopping-list mapping is a valid plan: no error, total 0 within budget,
\* every category shown.
C8_EmptyMealsValid ==
    (ParsedReply /\ PlanShaped(data.val) /\ MealsOf(data.val) = <<>>) =>
        /\ ~ErrorReported
        /\ \E i \in 1..Len(ui) : ui[i] = Elem("success", <<Num(0)>>)
        /\ Cardinality(Places("subheader")) = Len(ShoppingOf(data.val).keys)

\* C9: a reply text wrapped in a leading json fence and a trailing fence
\* (with or without line breaks inside the fences) is cleaned to the same
\* text, parsed to the same result and rendered to the same page as the
\* text itself.
C9_FenceStripping ==
    (pc = "done" /\ response.kind = "text") =>
        \A wrapped \in {Wrap(response.text), WrapLines(response.text)} :
            LET parsed == json_loads(clean_json(wrapped))
            IN /\ clean_json(wrapped) = clean_json(response.text)
               /\ data = [state |-> IF parsed.ok THEN "ok" ELSE "error", val |-> parsed.val]
               /\ ui \in {interpret(parsed, prefs.budget_target, before, image_loads) :
                            before \in {<<>>, <<ErrApiKey>>}}

C9_Witness ==
    /\ ParsedReply /\ response.kind = "text"
    /\ response.text = WrapLines(Dump(Plan(<<Meal(10), Meal(15), Meal(20)>>, Dict(<<>>, <<>>))))
    /\ image_loads
    /\ Cardinality(Places("expander")) = 3

\* s occurs in text.
Contains(text, s) == \E i \in 1..(Len(text) + 1) : StartsWithAt(text, i, s)

\* The prompt of a request made with a key contains the value of every
\* sidebar field, the budget as a dollar amount.
PromptHasEveryField ==
    (api_key # "" /\ pc \in {"calling", "done"}) =>
        /\ Contains(sent, str(prefs.total_meals))
        /\ Contains(sent, str(prefs.servings))
        /\ Contains(sent, <<prefs.complexity>>)
        /\ \A i \in 1..Len(prefs.cook_ware) : Contains(sent, <<prefs.cook_ware[i]>>)
        /\ Contains(sent, <<prefs.max_ingredients>>)
        /\ Contains(sent, <<prefs.diet_type>>)
        /\ \A i \in 1..Len(prefs.avoid_list) : Contains(sent, <<prefs.avoid_list[i]>>)
        /\ Contains(sent, <<prefs.cuisine>>)
        /\ Contains(sent, <<"$">> \o str(prefs.budget_target))

\* C10: with a non-empty key, Generate always builds and sends a prompt,
\* also when no cookware and nothing to avoid is selected; the prompt
\* contains the value of every sidebar field, the budget as a dollar
\* amount; and a Generate taken again with the sidebar unchanged sends the
\* same prompt as the request before it.
C10_PromptHasEveryField ==
    /\ []PromptHasEveryField
    /\ []((api_key # "" /\ pc # "calling") => ENABLED (GenerateClick /\ pc' = "calling" /\ sent' # <<>>))
    /\ [][(pc = "done" /\ sent # <<>> /\ pc' = "calling") => sent' = sent]_vars

C10_Witness ==
    /\ pc = "calling" /\ prefs.cook_ware = <<>> /\ prefs.avoid_list = <<>>
    /\ prefs.budget_target = 50
    /\ Contains(sent, <<"$", "5", "0">>)

====
